---- MODULE Spec2Model ----
(***************************************************************************)
(* A model of the REST handlers of index.js: the RADashboardImage, Poster  *)
(* (AdminPoster), Banner and MessageTemplate routes over their Mongoose    *)
(* models.  Every handler issues at most one store call, so one action is  *)
(* one request handled from start to response.                             *)
(*                                                                         *)
(* JSON strings are sequences of one-character strings, so that the id     *)
(* regular expression, the ObjectId cast, `trim` and the Number cast are   *)
(* computed and not assumed.  The characters used are digits, letters and  *)
(* the space.                                                              *)
(***************************************************************************)
EXTENDS Integers, Sequences, FiniteSets, TLC

VARIABLES
  db,               \* the store: model name -> set of documents
  nextOid,          \* number of the next ObjectId the store hands out
  now,              \* the clock that stamps createdAt / updatedAt
  undefinedAsNull,  \* how the installed Mongoose treats `undefined` update keys
  req,              \* the request handled last
  res,              \* its response
  call,             \* the store call it issued, and whether that call failed
  escaped,          \* an exception left the handler without being caught by it
  repeated,         \* the request is the one handled before it, sent again
  inflight,         \* the requests handled concurrently: client -> request
  expertImages,     \* the ExpertImage collection, with its unique imageName
  uploads           \* the ExpertImage creates handled concurrently

vars ==
  <<db, nextOid, now, undefinedAsNull, req, res, call, escaped, repeated, inflight,
    expertImages, uploads>>

\* Bounds of the model.
MaxDocs == 1
MaxClock == 1
MaxClients == 2

\* The length of an ObjectId in hexadecimal characters.
ObjectIdHexLen == 24

-----------------------------------------------------------------------------
(* JSON values *)

Undef == [k |-> "undefined", s |-> <<>>, n |-> 0]
Null == [k |-> "null", s |-> <<>>, n |-> 0]
Str(s) == [k |-> "string", s |-> s, n |-> 0]
Num(n) == [k |-> "number", s |-> <<>>, n |-> n]

\* JavaScript's !v
Falsy(v) ==
  \/ v.k \in {"undefined", "null"}
  \/ v.k = "string" /\ v.s = <<>>
  \/ v.k = "number" /\ v.n = 0

\* body.f of a parsed JSON body: undefined when the key is absent
Get(body, f) == IF f \in DOMAIN body THEN body[f] ELSE Undef

\* Object.keys(body)
Keys(body) == DOMAIN body

\* { f1, f2, ... } built by destructuring: every listed key, undefined if absent
Destructure(body, fields) == [f \in fields |-> Get(body, f)]

\* body without key f, and body with key f set to v
Without(body, f) == [g \in DOMAIN body \ {f} |-> body[g]]
With(body, f, v) == [g \in DOMAIN body \cup {f} |-> IF g = f THEN v ELSE body[g]]

-----------------------------------------------------------------------------
(* Strings *)

Digits == <<"0", "1", "2", "3", "4", "5", "6", "7", "8", "9">>
DigitSet == {Digits[i] : i \in 1..10}
HexClass == DigitSet \cup {"a", "b", "c", "d", "e", "f"}
                     \cup {"A", "B", "C", "D", "E", "F"}

DigitVal(c) == (CHOOSE i \in 1..10 : Digits[i] = c) - 1

RECURSIVE ParseDigits(_, _)
ParseDigits(s, acc) ==
  IF s = <<>> THEN acc ELSE ParseDigits(Tail(s), 10 * acc + DigitVal(Head(s)))

RECURSIVE ToDigits(_)
ToDigits(n) ==
  IF n < 10 THEN <<Digits[n + 1]>> ELSE Append(ToDigits(n \div 10), Digits[(n % 10) + 1])

RECURSIVE TrimStart(_)
TrimStart(s) == IF s # <<>> /\ Head(s) = " " THEN TrimStart(Tail(s)) ELSE s

RECURSIVE TrimEnd(_)
TrimEnd(s) ==
  IF s # <<>> /\ s[Len(s)] = " " THEN TrimEnd(SubSeq(s, 1, Len(s) - 1)) ELSE s

\* String.prototype.trim
Trim(s) == TrimEnd(TrimStart(s))

ToLowerChar(c) ==
  CASE c = "A" -> "a" [] c = "B" -> "b" [] c = "C" -> "c"
    [] c = "D" -> "d" [] c = "E" -> "e" [] c = "F" -> "f"
    [] OTHER -> c

ToLower(s) == [i \in 1..Len(s) |-> ToLowerChar(s[i])]

\* the prefix [0-9a-fA-F]{n} of the pattern; `rest` is what follows it
RECURSIVE HexRun(_, _)
HexRun(s, n) ==
  IF n = 0 THEN [ok |-> TRUE, rest |-> s]
  ELSE IF s = <<>> \/ Head(s) \notin HexClass THEN [ok |-> FALSE, rest |-> s]
  ELSE HexRun(Tail(s), n - 1)

\* the pattern without its closing anchor: /^[0-9a-fA-F]{24}/
MatchHex24Unanchored(id) == HexRun(id, ObjectIdHexLen).ok

\* id.match(/^[0-9a-fA-F]{24}$/)
MatchHex24(id) ==
  LET m == HexRun(id, ObjectIdHexLen) IN m.ok /\ m.rest = <<>>

-----------------------------------------------------------------------------
(* Schemas *)

S_blur == <<"b", "l", "u", "r">>
S_marketing == <<"m", "a", "r", "k", "e", "t", "i", "n", "g">>
S_premium == <<"p", "r", "e", "m", "i", "u", "m">>
S_home == <<"h", "o", "m", "e">>
S_webinar == <<"w", "e", "b", "i", "n", "a", "r">>
S_course == <<"c", "o", "u", "r", "s", "e">>

StringPath(required, enum, trim) ==
  [type |-> "String", required |-> required, enum |-> enum, trim |-> trim]
NumberPath(required, enum) ==
  [type |-> "Number", required |-> required, enum |-> enum, trim |-> FALSE]

RADashboardImageSchema ==
  [expertId |-> StringPath(TRUE, {}, FALSE),
   imageurl |-> StringPath(TRUE, {}, FALSE),
   type |-> StringPath(TRUE, {Str(S_blur), Str(S_marketing), Str(S_premium)}, FALSE),
   name |-> StringPath(TRUE, {}, FALSE)]

PosterSchema ==
  [image1url |-> StringPath(TRUE, {}, FALSE),
   image2url |-> StringPath(TRUE, {}, FALSE),
   type |-> NumberPath(TRUE, {Num(1), Num(2), Num(3)}),
   name |-> StringPath(TRUE, {}, FALSE)]

bannerSchema ==
  [type |-> StringPath(TRUE, {Str(S_home), Str(S_webinar), Str(S_course)}, TRUE),
   imageurl |-> StringPath(TRUE, {}, TRUE),
   name |-> StringPath(TRUE, {}, TRUE)]

messageTemplateSchema ==
  [raid |-> StringPath(FALSE, {}, FALSE),
   templatename |-> StringPath(FALSE, {}, FALSE),
   headingcontent |-> StringPath(FALSE, {}, FALSE),
   footercontent |-> StringPath(FALSE, {}, FALSE),
   type |-> StringPath(FALSE, {}, FALSE)]

\* mongoose.model(name, schema): the schema of each model
SchemaOf(model) ==
  CASE model = "RADashboardImage" -> RADashboardImageSchema
    [] model = "AdminPoster" -> PosterSchema
    [] model = "Banner" -> bannerSchema
    [] model = "MessageTemplate" -> messageTemplateSchema

Models == {"RADashboardImage", "AdminPoster", "Banner", "MessageTemplate"}

\* { timestamps: true }
TimestampPaths == {"createdAt", "updatedAt"}

-----------------------------------------------------------------------------
(* Mongoose: casting and validation of one path *)

\* The cast of a value to the path's declared type: [ok, v].
CastValue(st, v) ==
  IF v.k \in {"undefined", "null"} THEN [ok |-> TRUE, v |-> v]
  ELSE IF st.type = "String" THEN
    LET s == IF v.k = "number" THEN ToDigits(v.n) ELSE v.s
    IN [ok |-> TRUE, v |-> Str(IF st.trim THEN Trim(s) ELSE s)]
  ELSE \* Number
    IF v.k = "number" THEN [ok |-> TRUE, v |-> v]
    ELSE IF v.s = <<>> THEN [ok |-> TRUE, v |-> Null]
    ELSE LET t == Trim(v.s)
         IN IF \A i \in 1..Len(t) : t[i] \in DigitSet
            THEN [ok |-> TRUE, v |-> Num(ParseDigits(t, 0))]
            ELSE [ok |-> FALSE, v |-> Undef]

\* The `required` validator of a path on a cast value.
RequiredFails(st, v) ==
  st.required /\ (v.k \in {"undefined", "null"} \/ (st.type = "String" /\ v.s = <<>>))

\* A schema without enum validators.
EnumIgnored(st, v) == FALSE

\* The `enum` validator of a path on a cast value.
EnumFails(st, v) ==
  st.enum # {} /\ v.k \notin {"undefined", "null"} /\ v \notin st.enum

\* A path whose value does not cast or does not validate.
PathFails(st, v) ==
  LET c == CastValue(st, v)
  IN ~c.ok \/ RequiredFails(st, c.v) \/ EnumFails(st, c.v)

-----------------------------------------------------------------------------
(* Mongoose: documents *)

\* doc.save() rejects with a ValidationError
SaveFails(model, obj) ==
  \E p \in DOMAIN SchemaOf(model) : PathFails(SchemaOf(model)[p], Get(obj, p))

\* The n-th ObjectId of the store, as its 24 hexadecimal characters.
Oid(n) ==
  [i \in 1..ObjectIdHexLen |->
     IF i = ObjectIdHexLen THEN <<"a", "b", "c", "d", "e", "f">>[n] ELSE "0"]

\* new Model(obj) as stored by save() at time t: the schema's paths only
\* (strict), each cast, with _id and both timestamps.
NewDocument(model, obj, id, t) ==
  [f \in DOMAIN SchemaOf(model) \cup {"_id"} \cup TimestampPaths |->
     IF f = "_id" THEN Str(id)
     ELSE IF f \in TimestampPaths THEN Num(t)
     ELSE CastValue(SchemaOf(model)[f], Get(obj, f)).v]

\* The cast of a string to ObjectId: 24 hexadecimal characters, case-insensitive.
CastObjectId(id) ==
  IF Len(id) = ObjectIdHexLen /\ \A i \in 1..Len(id) : id[i] \in HexClass
  THEN [ok |-> TRUE, id |-> ToLower(id)]
  ELSE [ok |-> FALSE, id |-> <<>>]

\* Model.find(): the documents of a collection
Find(model) == db[model]

\* Model.find({ path: value })
FindBy(model, path, value) == {d \in db[model] : d[path] = Str(value)}

\* Model.findById(id) once the id is cast: the matching documents (none or one)
FindById(model, id) == {d \in db[model] : d["_id"] = Str(CastObjectId(id).id)}

\* The paths an update sets: those of the schema (strict), without the keys
\* whose value is undefined unless the installed Mongoose sends them as null.
UpdatePaths(model, update) ==
  {p \in DOMAIN update \cap DOMAIN SchemaOf(model) :
     update[p] # Undef \/ undefinedAsNull}

\* The value an update sets a path to.
UpdateValue(model, update, p) ==
  CastValue(SchemaOf(model)[p], IF update[p] = Undef THEN Null ELSE update[p])

\* findByIdAndUpdate rejects before the store call: a path that does not cast,
\* or, with runValidators, does not validate.
UpdateFails(model, update, runValidators) ==
  \E p \in UpdatePaths(model, update) :
     LET st == SchemaOf(model)[p]
         c == UpdateValue(model, update, p)
     IN ~c.ok \/ (runValidators /\ (RequiredFails(st, c.v) \/ EnumFails(st, c.v)))

\* The update as a replacement of the document: the paths it does not set are
\* lost.
ApplyUpdateReplacing(model, doc, update, t) ==
  [f \in DOMAIN doc |->
     IF f \in UpdatePaths(model, update) THEN UpdateValue(model, update, f).v
     ELSE IF f = "updatedAt" THEN Num(t)
     ELSE IF f \in DOMAIN SchemaOf(model) THEN Null
     ELSE doc[f]]

\* The update as a rewrite of the document: both timestamps are set anew.
ApplyUpdateRestamping(model, doc, update, t) ==
  [f \in DOMAIN doc |->
     IF f \in UpdatePaths(model, update) THEN UpdateValue(model, update, f).v
     ELSE IF f \in TimestampPaths THEN Num(t)
     ELSE doc[f]]

\* The document after the update at time t ({ new: true }).
ApplyUpdate(model, doc, update, t) ==
  [f \in DOMAIN doc |->
     IF f \in UpdatePaths(model, update) THEN UpdateValue(model, update, f).v
     ELSE IF f = "updatedAt" THEN Num(t)
     ELSE doc[f]]

-----------------------------------------------------------------------------
(* Requests, responses and store calls *)

NoBody == [f \in {} |-> Null]

Request(route, param, body) == [route |-> route, param |-> param, body |-> body]

\* The response bodies the handlers build.  `data` is the set of documents
\* carried; `shape` tells an envelope object from a bare document or array.
Message(m) ==
  [shape |-> "object", keys |-> {"message"}, message |-> m, error |-> "", data |-> {}]
MessageError(m, e) ==
  [shape |-> "object", keys |-> {"message", "error"}, message |-> m, error |-> e,
   data |-> {}]
ErrorOnly(e) ==
  [shape |-> "object", keys |-> {"error"}, message |-> "", error |-> e, data |-> {}]
MessageData(m, docs) ==
  [shape |-> "object", keys |-> {"message", "data"}, message |-> m, error |-> "",
   data |-> docs]
BareDocument(doc) ==
  [shape |-> "document", keys |-> {}, message |-> "", error |-> "", data |-> {doc}]
BareArray(docs) ==
  [shape |-> "array", keys |-> {}, message |-> "", error |-> "", data |-> docs]

\* No request is being handled: req and res exist from the arrival of a
\* request to the sending of its response.
NoRequest == Request("none", <<>>, NoBody)
NoResponse == [status |-> 0, body |-> Message("")]
NoCall == [op |-> "none", failed |-> FALSE]

\* error.message of what a catch block caught
RejectedByMongoose == "cast or validation error"
StoreError == "store call failed"

\* the catch block without the diagnostic: { message: "Server Error" }
ServerErrorNoDiagnostic(e) == Message("Server Error")

\* catch (error) { res.status(500).json({ message: "Server Error", error: error.message }) }
ServerError(e) == MessageError("Server Error", e)

\* res.status(status).json(body), with the store call the handler issued
Respond(r, status, body, op, failed) ==
  /\ req' = r
  /\ res' = [status |-> status, body |-> body]
  /\ call' = [op |-> op, failed |-> failed]
  /\ escaped' = FALSE

\* err.message of express.json() for a body that is not JSON, and of the
\* TypeError of destructuring a req.body that is not an object
BodyParseError == "body is not JSON"
NotAnObject == "cannot destructure req.body"

\* The page Express's own final handler sends for an error that no error
\* middleware took: not JSON.
DefaultErrorPage ==
  [shape |-> "html", keys |-> {}, message |-> "", error |-> "", data |-> {}]

\* const errorHandler = (err, req, res, next) => { ... }
errorHandler(r, err) ==
  /\ req' = r
  /\ res' = [status |-> 500, body |-> MessageError("Server Error", err.message)]
  /\ call' = NoCall
  /\ escaped' = TRUE

\* An exception thrown in a route handler outside its try block.  The
\* handlers are async functions, so the exception rejects the promise the
\* handler returns.  Express gives an error to the error middleware registered
\* after the layer that raised it, and app.use(errorHandler) comes before
\* app.use("/api", router): an Express that forwards the rejection finds no
\* error middleware and answers with its final handler, an Express that does
\* not forward rejections leaves the request without a response.
Uncaught(r, err) ==
  /\ req' = r
  /\ res' \in {NoResponse, [status |-> 500, body |-> DefaultErrorPage]}
  /\ call' = NoCall
  /\ escaped' = TRUE

\* A handler that leaves the store as it is.
StoreUnchanged == db' = db /\ nextOid' = nextOid

\* save() of a new document: the store assigns the next ObjectId.
Insert(model, obj) ==
  /\ nextOid <= MaxDocs
  /\ db' = [db EXCEPT ![model] = @ \cup {NewDocument(model, obj, Oid(nextOid), now)}]
  /\ nextOid' = nextOid + 1

\* A store that acknowledges a removal without performing it.
RemoveNothing(model, old) == db' = db /\ nextOid' = nextOid

Replace(model, old, new) ==
  /\ db' = [db EXCEPT ![model] = (@ \ {old}) \cup {new}]
  /\ nextOid' = nextOid

Remove(model, old) ==
  /\ db' = [db EXCEPT ![model] = @ \ {old}]
  /\ nextOid' = nextOid

\* One request at a time: nothing is handled concurrently.
Sequential == UNCHANGED <<inflight, expertImages, uploads>>

Frame == UNCHANGED <<now, undefinedAsNull, repeated>> /\ Sequential

-----------------------------------------------------------------------------
(* Handlers shared in shape by several routes *)

\* if (!a || !b || ...) : some listed field of the body is falsy
AnyFalsy(body, fields) == \E f \in fields : Falsy(Get(body, f))

\* the check with its last operand lost: if (!expertId || !imageurl || !type)
ImageFieldMissingNoName(body) == AnyFalsy(body, {"expertId", "imageurl", "type"})

\* if (!expertId || !imageurl || !type || !name)
ImageFieldMissing(body) == AnyFalsy(body, {"expertId", "imageurl", "type", "name"})

\* if (!image1url || !image2url || !type || !name)
PosterFieldMissing(body) == AnyFalsy(body, {"image1url", "image2url", "type", "name"})

\* if (!type || !imageurl || !name)
BannerFieldMissing(body) == AnyFalsy(body, {"type", "imageurl", "name"})

\* allowedTypes.includes(type)
BannerTypeAllowed(type) == type \in {Str(S_home), Str(S_webinar), Str(S_course)}

\* if (!Object.keys(updateData).length)
NoFields(updateData) == Cardinality(Keys(updateData)) = 0

\* if (!images.length)
IsEmptyList(docs) == Cardinality(docs) = 0

\* if (!template), where template is the array find() resolved to: an array
\* is never falsy
IsFalsyArray(docs) == FALSE

\* router.post of a model with a required-field check, new Model(...), save()
\* and the 500 catch block
CreateHandler(r, model, fields, missing, missingMsg, createdMsg, fail) ==
  LET obj == Destructure(r.body, fields)
      id == Oid(nextOid)
  IN IF missing
     THEN Respond(r, 400, Message(missingMsg), "none", FALSE) /\ StoreUnchanged
     ELSE IF SaveFails(model, obj)
     THEN Respond(r, 500, ServerError(RejectedByMongoose), "none", FALSE)
          /\ StoreUnchanged
     ELSE IF fail
     THEN Respond(r, 500, ServerError(StoreError), "insertOne", TRUE)
          /\ StoreUnchanged
     ELSE /\ Insert(model, obj)
          /\ Respond(r, 201,
                     MessageData(createdMsg, {NewDocument(model, obj, id, now)}),
                     "insertOne", FALSE)

\* findByIdAndUpdate with { upsert: true }: an id that matches no record
\* gets a record made of the update.
PatchHandlerUpserting(r, model, notFoundMsg, updatedMsg, fail) ==
  LET id == r.param
      updateData == r.body
      found == FindById(model, id)
  IN IF NoFields(updateData)
     THEN Respond(r, 400, Message("No fields provided for update."), "none", FALSE)
          /\ StoreUnchanged
     ELSE IF ~CastObjectId(id).ok \/ UpdateFails(model, updateData, TRUE)
     THEN Respond(r, 500, ServerError(RejectedByMongoose), "none", FALSE)
          /\ StoreUnchanged
     ELSE IF fail
     THEN Respond(r, 500, ServerError(StoreError), "findOneAndUpdate", TRUE)
          /\ StoreUnchanged
     ELSE LET old == IF found = {}
                     THEN {NewDocument(model, updateData, CastObjectId(id).id, now)}
                     ELSE found
          IN \E o \in old :
               LET new == ApplyUpdate(model, o, updateData, now)
               IN /\ db' = [db EXCEPT ![model] = (@ \ {o}) \cup {new}]
                  /\ nextOid' = nextOid
                  /\ Respond(r, 200, MessageData(updatedMsg, {new}),
                             "findOneAndUpdate", FALSE)

\* router.patch with findByIdAndUpdate(id, { $set: updateData },
\* { new: true, runValidators: true }) and the 500 catch block
PatchHandler(r, model, notFoundMsg, updatedMsg, fail) ==
  LET id == r.param
      updateData == r.body
      found == FindById(model, id)
  IN IF NoFields(updateData)
     THEN Respond(r, 400, Message("No fields provided for update."), "none", FALSE)
          /\ StoreUnchanged
     ELSE IF ~CastObjectId(id).ok \/ UpdateFails(model, updateData, TRUE)
     THEN Respond(r, 500, ServerError(RejectedByMongoose), "none", FALSE)
          /\ StoreUnchanged
     ELSE IF fail
     THEN Respond(r, 500, ServerError(StoreError), "findOneAndUpdate", TRUE)
          /\ StoreUnchanged
     ELSE IF found = {}
     THEN Respond(r, 404, Message(notFoundMsg), "findOneAndUpdate", FALSE)
          /\ StoreUnchanged
     ELSE \E old \in found :
            LET new == ApplyUpdate(model, old, updateData, now)
            IN /\ Replace(model, old, new)
               /\ Respond(r, 200, MessageData(updatedMsg, {new}),
                          "findOneAndUpdate", FALSE)

\* router.delete with findByIdAndDelete(id) and the 500 catch block
DeleteHandler(r, model, notFoundMsg, deletedMsg, fail) ==
  LET id == r.param
      found == FindById(model, id)
  IN IF ~CastObjectId(id).ok
     THEN Respond(r, 500, ServerError(RejectedByMongoose), "none", FALSE)
          /\ StoreUnchanged
     ELSE IF fail
     THEN Respond(r, 500, ServerError(StoreError), "findOneAndDelete", TRUE)
          /\ StoreUnchanged
     ELSE IF found = {}
     THEN Respond(r, 404, Message(notFoundMsg), "findOneAndDelete", FALSE)
          /\ StoreUnchanged
     ELSE \E old \in found :
            /\ Remove(model, old)
            /\ Respond(r, 200, MessageData(deletedMsg, {old}),
                       "findOneAndDelete", FALSE)

\* router.get of a whole collection in the { message, data } envelope
ListHandler(r, model, listedMsg, fail) ==
  /\ StoreUnchanged
  /\ IF fail
     THEN Respond(r, 500, ServerError(StoreError), "find", TRUE)
     ELSE Respond(r, 200, MessageData(listedMsg, Find(model)), "find", FALSE)

-----------------------------------------------------------------------------
(* The inputs of the requests *)

V_e1 == <<"e", "1">>
V_e2 == <<"e", "2">>
V_u1 == <<"u", "1">>
V_u2 == <<"u", "2">>
V_n1 == <<"n", "1">>
V_n2 == <<"n", "2">>
V_x == <<"x">>

\* Path parameters used as ids: every id the store can hand out, one of them
\* in upper case, a short string and a 25-character hexadecimal string.
RequestIds ==
  {Oid(n) : n \in 1..MaxDocs}
    \cup {[Oid(1) EXCEPT ![ObjectIdHexLen] = "A"], <<"z", "z", "z">>, Oid(1) \o <<"0">>}

\* Path parameters used as owner tags.
OwnerTags == {V_e1, V_e2}

ImageBody ==
  [expertId |-> Str(V_e1), imageurl |-> Str(V_u1), type |-> Str(S_blur),
   name |-> Str(V_n1)]

ImageCreateBodies ==
  {ImageBody,
   Without(ImageBody, "name"),
   With(ImageBody, "imageurl", Str(<<>>)),
   With(ImageBody, "expertId", Null),
   With(ImageBody, "type", Str(V_x)),
   NoBody}

ImagePatchBodies ==
  {NoBody,
   [name |-> Str(V_n2)],
   [type |-> Str(S_marketing), expertId |-> Str(V_e2)],
   [type |-> Str(V_x)],
   [name |-> Str(<<>>)],
   [caption |-> Str(V_x)]}

PosterBody ==
  [image1url |-> Str(V_u1), image2url |-> Str(V_u2), type |-> Num(1),
   name |-> Str(V_n1)]

PosterCreateBodies ==
  {PosterBody,
   With(PosterBody, "type", Str(<<"2">>)),
   With(PosterBody, "type", Num(0)),
   With(PosterBody, "type", Num(4)),
   With(PosterBody, "type", Str(V_x)),
   Without(PosterBody, "image2url"),
   NoBody}

PosterPatchBodies ==
  {NoBody,
   [image1url |-> Str(V_u2)],
   [type |-> Str(<<"3">>)],
   [type |-> Num(4)],
   [caption |-> Str(V_x)]}

BannerBody == [type |-> Str(S_home), imageurl |-> Str(V_u1), name |-> Str(V_n1)]

BannerCreateBodies ==
  {BannerBody,
   With(BannerBody, "name", Str(<<" ">> \o V_n2 \o <<" ">>)),
   With(BannerBody, "name", Str(<<" ">>)),
   With(BannerBody, "type", Str(<<" ">> \o S_home)),
   With(BannerBody, "type", Str(V_x)),
   Without(BannerBody, "imageurl"),
   NoBody}

TemplateBody ==
  [raid |-> Str(V_e1), templatename |-> Str(V_n1), headingcontent |-> Str(V_u1),
   footercontent |-> Str(V_u2), type |-> Str(V_x)]

TemplateCreateBodies == {TemplateBody, NoBody}

TemplatePatchBodies ==
  {NoBody,
   [raid |-> Str(V_e2), footercontent |-> Null],
   [caption |-> Str(V_x)]}

-----------------------------------------------------------------------------
(* The routes *)

TemplateFields == {"raid", "templatename", "headingcontent", "footercontent", "type"}

\* router.post("/ra-dashboard/image")
PostImage(body, fail) ==
  CreateHandler(Request("POST /ra-dashboard/image", <<>>, body), "RADashboardImage",
                {"expertId", "imageurl", "type", "name"}, ImageFieldMissing(body),
                "All required fields must be provided", "Image added successfully",
                fail)

\* router.patch("/ra-dashboard/image/:id")
PatchImage(id, body, fail) ==
  PatchHandler(Request("PATCH /ra-dashboard/image/:id", id, body), "RADashboardImage",
               "No image found with id", "Image updated successfully", fail)

\* router.delete("/ra-dashboard/image/:id")
DeleteImage(id, fail) ==
  DeleteHandler(Request("DELETE /ra-dashboard/image/:id", id, NoBody),
                "RADashboardImage", "No image found with id",
                "Image deleted successfully", fail)

\* router.get("/ra-dashboard/images")
GetImages(fail) ==
  ListHandler(Request("GET /ra-dashboard/images", <<>>, NoBody), "RADashboardImage",
              "Images retrieved successfully", fail)

\* router.get("/ra-dashboard/images/:expertId")
GetImagesByExpert(expertId, fail) ==
  LET r == Request("GET /ra-dashboard/images/:expertId", expertId, NoBody)
      images == FindBy("RADashboardImage", "expertId", expertId)
  IN /\ StoreUnchanged
     /\ IF fail
        THEN Respond(r, 500, ServerError(StoreError), "find", TRUE)
        ELSE IF IsEmptyList(images)
        THEN Respond(r, 404, Message("No images found for expertId"), "find", FALSE)
        ELSE Respond(r, 200, MessageData("Images for expertId fetched successfully",
                                         images), "find", FALSE)

\* router.post("/admin/poster")
PostPoster(body, fail) ==
  CreateHandler(Request("POST /admin/poster", <<>>, body), "AdminPoster",
                {"image1url", "image2url", "type", "name"}, PosterFieldMissing(body),
                "All required fields must be provided", "Poster added successfully",
                fail)

\* router.get("/admin/posters")
GetPosters(fail) ==
  ListHandler(Request("GET /admin/posters", <<>>, NoBody), "AdminPoster",
              "Posters retrieved successfully", fail)

\* router.delete("/admin/poster/:id")
DeletePoster(id, fail) ==
  DeleteHandler(Request("DELETE /admin/poster/:id", id, NoBody), "AdminPoster",
                "No poster found with id", "Poster deleted successfully", fail)

\* router.patch("/admin/poster/:id")
PatchPoster(id, body, fail) ==
  PatchHandler(Request("PATCH /admin/poster/:id", id, body), "AdminPoster",
               "No poster found with id", "Poster updated successfully", fail)

\* router.get("/banner")
GetBanners(fail) ==
  LET r == Request("GET /banner", <<>>, NoBody)
  IN /\ StoreUnchanged
     /\ IF fail
        THEN Respond(r, 500, ServerError(StoreError), "find", TRUE)
        ELSE Respond(r, 200, BareArray(Find("Banner")), "find", FALSE)

\* router.get("/banner/:id")
GetBanner(id, fail) ==
  LET r == Request("GET /banner/:id", id, NoBody)
      found == FindById("Banner", id)
  IN /\ StoreUnchanged
     /\ IF ~MatchHex24(id)
        THEN Respond(r, 400, Message("Invalid banner ID format."), "none", FALSE)
        ELSE IF ~CastObjectId(id).ok
        THEN Respond(r, 500, ServerError(RejectedByMongoose), "none", FALSE)
        ELSE IF fail
        THEN Respond(r, 500, ServerError(StoreError), "findOne", TRUE)
        ELSE IF found = {}
        THEN Respond(r, 404, Message("No banner found with id"), "findOne", FALSE)
        ELSE \E banner \in found :
               Respond(r, 200, BareDocument(banner), "findOne", FALSE)

\* router.post("/banner"): the required-field check (the 400 of CreateHandler),
\* then, for a body that passed it, the allowedTypes check
PostBanner(body, fail) ==
  LET r == Request("POST /banner", <<>>, body)
  IN IF ~BannerFieldMissing(body) /\ ~BannerTypeAllowed(Get(body, "type"))
     THEN Respond(r, 400, Message("Type must be one of: home, webinar, course"),
                  "none", FALSE)
          /\ StoreUnchanged
     ELSE CreateHandler(r, "Banner", {"type", "imageurl", "name"},
                        BannerFieldMissing(body), "All fields are required.",
                        "Banner created successfully", fail)

\* router.delete("/banner/:id")
DeleteBanner(id, fail) ==
  LET r == Request("DELETE /banner/:id", id, NoBody)
  IN IF ~MatchHex24(id)
     THEN Respond(r, 400, Message("Invalid banner ID format."), "none", FALSE)
          /\ StoreUnchanged
     ELSE DeleteHandler(r, "Banner", "No banner found with id",
                        "Banner deleted successfully", fail)

\* router.get("/template")
GetTemplates(fail) ==
  LET r == Request("GET /template", <<>>, NoBody)
  IN /\ StoreUnchanged
     /\ IF fail
        THEN Respond(r, 500, ErrorOnly(StoreError), "find", TRUE)
        ELSE Respond(r, 200, BareArray(Find("MessageTemplate")), "find", FALSE)

\* router.get("/template/:raid")
GetTemplateByRaid(raid, fail) ==
  LET r == Request("GET /template/:raid", raid, NoBody)
      template == FindBy("MessageTemplate", "raid", raid)
  IN /\ StoreUnchanged
     /\ IF fail
        THEN Respond(r, 500, ErrorOnly(StoreError), "find", TRUE)
        ELSE IF IsFalsyArray(template)
        THEN Respond(r, 404, Message("Template not found with the provided raid"),
                     "find", FALSE)
        ELSE Respond(r, 200, BareArray(template), "find", FALSE)

\* router.post("/template").  The destructuring of req.body and the
\* construction of the document stand before `try`: `throws` is the case in
\* which they throw, a request whose req.body is not an object.
PostTemplate(body, fail, throws) ==
  LET r == Request("POST /template", <<>>, body)
      obj == Destructure(body, TemplateFields)
  IN IF throws
     THEN Uncaught(r, [message |-> NotAnObject]) /\ StoreUnchanged
     ELSE IF SaveFails("MessageTemplate", obj)
     THEN Respond(r, 400, ErrorOnly(RejectedByMongoose), "none", FALSE)
          /\ StoreUnchanged
     ELSE IF fail
     THEN Respond(r, 400, ErrorOnly(StoreError), "insertOne", TRUE) /\ StoreUnchanged
     ELSE /\ Insert("MessageTemplate", obj)
          /\ Respond(r, 201,
                     BareDocument(NewDocument("MessageTemplate", obj, Oid(nextOid),
                                              now)),
                     "insertOne", FALSE)

\* router.delete("/template/:id")
DeleteTemplate(id, fail) ==
  LET r == Request("DELETE /template/:id", id, NoBody)
      found == FindById("MessageTemplate", id)
  IN IF ~CastObjectId(id).ok
     THEN Respond(r, 500, ErrorOnly(RejectedByMongoose), "none", FALSE)
          /\ StoreUnchanged
     ELSE IF fail
     THEN Respond(r, 500, ErrorOnly(StoreError), "findOneAndDelete", TRUE)
          /\ StoreUnchanged
     ELSE IF found = {}
     THEN Respond(r, 404, Message("Template not found"), "findOneAndDelete", FALSE)
          /\ StoreUnchanged
     ELSE \E deletedTemplate \in found :
            /\ Remove("MessageTemplate", deletedTemplate)
            /\ Respond(r, 200, Message("Template deleted successfully"),
                       "findOneAndDelete", FALSE)

\* router.patch("/template/:id").  The destructuring of req.body stands
\* before `try`, as in router.post("/template").
PatchTemplate(id, body, fail, throws) ==
  LET r == Request("PATCH /template/:id", id, body)
      update == Destructure(body, TemplateFields)
      found == FindById("MessageTemplate", id)
  IN IF throws
     THEN Uncaught(r, [message |-> NotAnObject]) /\ StoreUnchanged
     ELSE IF ~CastObjectId(id).ok \/ UpdateFails("MessageTemplate", update, FALSE)
     THEN Respond(r, 400, ErrorOnly(RejectedByMongoose), "none", FALSE)
          /\ StoreUnchanged
     ELSE IF fail
     THEN Respond(r, 400, ErrorOnly(StoreError), "findOneAndUpdate", TRUE)
          /\ StoreUnchanged
     ELSE IF found = {}
     THEN Respond(r, 404, Message("Template not found"), "findOneAndUpdate", FALSE)
          /\ StoreUnchanged
     ELSE \E old \in found :
            LET updatedTemplate == ApplyUpdate("MessageTemplate", old, update, now)
            IN /\ Replace("MessageTemplate", old, updatedTemplate)
               /\ Respond(r, 200, BareDocument(updatedTemplate),
                          "findOneAndUpdate", FALSE)

\* app.use(express.json()): a body that does not parse is handed to
\* next(err) before the router is reached, and errorHandler is the error
\* middleware registered after express.json().
MalformedJson ==
  LET r == Request("express.json()", <<>>, NoBody)
  IN errorHandler(r, [message |-> BodyParseError]) /\ StoreUnchanged

-----------------------------------------------------------------------------
(* The state machine *)

Idle == req = NoRequest

\* The clients whose requests are handled concurrently.
Clients == 1..MaxClients

\* A client without a request.
NoFlight ==
  [route |-> "none", param |-> <<>>, body |-> NoBody, stage |-> "none", status |-> 0,
   failed |-> FALSE]
NoUpload == [body |-> NoBody, stage |-> "none", status |-> 0, error |-> "", detected |-> ""]

\* Before the first request: no request, an empty ExpertImage collection.
Quiet ==
  /\ now = 0
  /\ undefinedAsNull \in BOOLEAN
  /\ req = NoRequest
  /\ res = NoResponse
  /\ call = NoCall
  /\ escaped = FALSE
  /\ repeated = FALSE
  /\ inflight = [c \in Clients |-> NoFlight]
  /\ expertImages = {}
  /\ uploads = [c \in Clients |-> NoUpload]

Init ==
  /\ db = [m \in Models |-> {}]
  /\ nextOid = 1
  /\ Quiet

\* The response has been sent: the request is over.
Finish ==
  /\ ~Idle
  /\ req' = NoRequest
  /\ res' = NoResponse
  /\ call' = NoCall
  /\ escaped' = FALSE
  /\ repeated' = FALSE
  /\ UNCHANGED <<db, nextOid, now, undefinedAsNull>>
  /\ Sequential

\* The routes that update a record.
PatchRoutes ==
  {"PATCH /ra-dashboard/image/:id", "PATCH /admin/poster/:id", "PATCH /template/:id"}

\* A PATCH that was answered 200: the client may send it again.
Repeatable == req.route \in PatchRoutes /\ res.status = 200

\* Time passes between two requests.
Tick ==
  /\ Idle \/ Repeatable
  /\ now < MaxClock
  /\ now' = now + 1
  /\ UNCHANGED <<db, nextOid, undefinedAsNull, req, res, call, escaped, repeated>>
  /\ Sequential

\* Whether the statements before `try` can throw: only a request that brought
\* no fields can be one whose req.body is not an object.
Throws(body) == IF body = NoBody THEN BOOLEAN ELSE {FALSE}

PostImageRequest ==
  Idle /\ \E body \in ImageCreateBodies, fail \in BOOLEAN : PostImage(body, fail) /\ Frame
PatchImageRequest ==
  Idle /\ \E id \in RequestIds, body \in ImagePatchBodies, fail \in BOOLEAN :
    PatchImage(id, body, fail) /\ Frame
DeleteImageRequest ==
  Idle /\ \E id \in RequestIds, fail \in BOOLEAN : DeleteImage(id, fail) /\ Frame
GetImagesRequest == Idle /\ \E fail \in BOOLEAN : GetImages(fail) /\ Frame
GetImagesByExpertRequest ==
  Idle /\ \E expertId \in OwnerTags, fail \in BOOLEAN : GetImagesByExpert(expertId, fail) /\ Frame
PostPosterRequest ==
  Idle /\ \E body \in PosterCreateBodies, fail \in BOOLEAN : PostPoster(body, fail) /\ Frame
GetPostersRequest == Idle /\ \E fail \in BOOLEAN : GetPosters(fail) /\ Frame
DeletePosterRequest ==
  Idle /\ \E id \in RequestIds, fail \in BOOLEAN : DeletePoster(id, fail) /\ Frame
PatchPosterRequest ==
  Idle /\ \E id \in RequestIds, body \in PosterPatchBodies, fail \in BOOLEAN :
    PatchPoster(id, body, fail) /\ Frame
GetBannersRequest == Idle /\ \E fail \in BOOLEAN : GetBanners(fail) /\ Frame
GetBannerRequest ==
  Idle /\ \E id \in RequestIds, fail \in BOOLEAN : GetBanner(id, fail) /\ Frame
PostBannerRequest ==
  Idle /\ \E body \in BannerCreateBodies, fail \in BOOLEAN : PostBanner(body, fail) /\ Frame
DeleteBannerRequest ==
  Idle /\ \E id \in RequestIds, fail \in BOOLEAN : DeleteBanner(id, fail) /\ Frame
GetTemplatesRequest == Idle /\ \E fail \in BOOLEAN : GetTemplates(fail) /\ Frame
GetTemplateByRaidRequest ==
  Idle /\ \E raid \in OwnerTags, fail \in BOOLEAN : GetTemplateByRaid(raid, fail) /\ Frame
PostTemplateRequest ==
  Idle /\ \E body \in TemplateCreateBodies, fail \in BOOLEAN :
    \E throws \in Throws(body) : PostTemplate(body, fail, throws) /\ Frame
DeleteTemplateRequest ==
  Idle /\ \E id \in RequestIds, fail \in BOOLEAN : DeleteTemplate(id, fail) /\ Frame
PatchTemplateRequest ==
  Idle /\ \E id \in RequestIds, body \in TemplatePatchBodies, fail \in BOOLEAN :
    \E throws \in Throws(body) : PatchTemplate(id, body, fail, throws) /\ Frame
MalformedJsonRequest == Idle /\ MalformedJson /\ Frame

\* The same PATCH once more, with no other request in between.
Again == repeated' = TRUE /\ UNCHANGED <<now, undefinedAsNull>> /\ Sequential
RepeatPatchImageRequest ==
  /\ Repeatable
  /\ req.route = "PATCH /ra-dashboard/image/:id"
  /\ \E fail \in BOOLEAN : PatchImage(req.param, req.body, fail) /\ Again
RepeatPatchPosterRequest ==
  /\ Repeatable
  /\ req.route = "PATCH /admin/poster/:id"
  /\ \E fail \in BOOLEAN : PatchPoster(req.param, req.body, fail) /\ Again
RepeatPatchTemplateRequest ==
  /\ Repeatable
  /\ req.route = "PATCH /template/:id"
  /\ \E fail \in BOOLEAN, throws \in Throws(req.body) :
       PatchTemplate(req.param, req.body, fail, throws) /\ Again

Next ==
  \/ Tick
  \/ Finish
  \/ PostImageRequest
  \/ PatchImageRequest
  \/ DeleteImageRequest
  \/ GetImagesRequest
  \/ GetImagesByExpertRequest
  \/ PostPosterRequest
  \/ GetPostersRequest
  \/ DeletePosterRequest
  \/ PatchPosterRequest
  \/ GetBannersRequest
  \/ GetBannerRequest
  \/ PostBannerRequest
  \/ DeleteBannerRequest
  \/ GetTemplatesRequest
  \/ GetTemplateByRaidRequest
  \/ PostTemplateRequest
  \/ DeleteTemplateRequest
  \/ PatchTemplateRequest
  \/ MalformedJsonRequest
  \/ RepeatPatchImageRequest
  \/ RepeatPatchPosterRequest
  \/ RepeatPatchTemplateRequest

Spec == Init /\ [][Next]_vars

-----------------------------------------------------------------------------
(* Requests handled concurrently *)

\* Every handler is an async function with one awaited store call: it runs
\* from the arrival of its request to that call without a pause, the store
\* executes the calls it received one at a time in any order, and the rest of
\* the handler answers with the call's result.  Between the arrival and the
\* store call of one request, other requests arrive and are served.

\* A store that holds one record of each kind.
Stored ==
  [m \in Models |->
     CASE m = "RADashboardImage" -> {NewDocument(m, ImageBody, Oid(1), 0)}
       [] m = "AdminPoster" -> {NewDocument(m, PosterBody, Oid(2), 0)}
       [] m = "MessageTemplate" -> {NewDocument(m, TemplateBody, Oid(3), 0)}
       [] OTHER -> {}]

\* The requests of the concurrent clients: deletes and updates of the stored
\* records.
ConcurrentRequests ==
  {Request("DELETE /ra-dashboard/image/:id", Oid(1), NoBody),
   Request("DELETE /admin/poster/:id", Oid(2), NoBody),
   Request("DELETE /template/:id", Oid(3), NoBody),
   Request("PATCH /ra-dashboard/image/:id", Oid(1), [name |-> Str(V_n2)]),
   Request("PATCH /template/:id", Oid(3), [raid |-> Str(V_e2)])}

InitConcurrent ==
  /\ db = Stored
  /\ nextOid = 4
  /\ Quiet

\* The request of a client arrives and its handler runs up to its store call.
Arrive(c) ==
  /\ inflight[c].stage = "none"
  /\ \E r \in ConcurrentRequests :
       inflight' = [inflight EXCEPT ![c] =
                      [route |-> r.route, param |-> r.param, body |-> r.body,
                       stage |-> "pending", status |-> 0, failed |-> FALSE]]
  /\ UNCHANGED <<db, nextOid, now, undefinedAsNull, req, res, call, escaped, repeated,
                 expertImages, uploads>>

\* The store executes the call of a pending request and its handler answers.
Serve(c) ==
  LET f == inflight[c]
  IN /\ f.stage = "pending"
     /\ \E fail \in BOOLEAN :
          CASE f.route = "DELETE /ra-dashboard/image/:id" -> DeleteImage(f.param, fail)
            [] f.route = "DELETE /admin/poster/:id" -> DeletePoster(f.param, fail)
            [] f.route = "DELETE /template/:id" -> DeleteTemplate(f.param, fail)
            [] f.route = "PATCH /ra-dashboard/image/:id" ->
                 PatchImage(f.param, f.body, fail)
            [] OTHER -> PatchTemplate(f.param, f.body, fail, FALSE)
     /\ inflight' = [inflight EXCEPT ![c] =
                      [f EXCEPT !.stage = "answered", !.status = res'.status,
                                !.failed = call'.failed]]
     /\ UNCHANGED <<now, undefinedAsNull, repeated, expertImages, uploads>>

ArriveRequest == \E c \in Clients : Arrive(c)
ServeRequest == \E c \in Clients : Serve(c)

NextConcurrent ==
  \/ ArriveRequest
  \/ ServeRequest

SpecConcurrent == InitConcurrent /\ [][NextConcurrent]_vars

-----------------------------------------------------------------------------
(* The ExpertImage revision *)

\* index.js holds no ExpertImage model: the create of that revision is taken
\* from the specification.  It validates the required fields, looks for a
\* record with the same imageName (an advisory pre-check), and inserts; the
\* store's unique index on imageName is the final arbiter, and its rejection
\* is answered as the pre-check's is.  The pre-check and the insert are two
\* store calls, so the creates of several clients interleave between them.

ExpertImageFields == {"expertId", "imageName", "webImageUrl", "mobileImageUrl", "property"}

ExpertImageBody(imageName) ==
  [expertId |-> Str(V_e1), imageName |-> Str(imageName), webImageUrl |-> Str(V_u1),
   mobileImageUrl |-> Str(V_u2), property |-> Str(S_blur)]

ExpertImageBodies ==
  {ExpertImageBody(V_n1), ExpertImageBody(V_n2),
   Without(ExpertImageBody(V_n1), "webImageUrl")}

\* The records that hold an imageName.
Named(imageName) == {d \in expertImages : d.imageName = imageName}

\* A store without the unique index.
NoUniqueIndex(imageName) == FALSE

\* The unique index on imageName rejects the insert of a second record.
UniqueIndexRejects(imageName) == Named(imageName) # {}

Answer(c, status, error, detected) ==
  uploads' = [uploads EXCEPT ![c] =
                [@ EXCEPT !.stage = "answered", !.status = status, !.error = error,
                          !.detected = detected]]

\* The request arrives and its required fields are validated.
ExpertImageArrive(c) ==
  /\ uploads[c].stage = "none"
  /\ \E body \in ExpertImageBodies :
       uploads' = [uploads EXCEPT ![c] =
                     IF AnyFalsy(body, ExpertImageFields)
                     THEN [body |-> body, stage |-> "answered", status |-> 400,
                           error |-> "ValidationError", detected |-> "handler"]
                     ELSE [body |-> body, stage |-> "validated", status |-> 0,
                           error |-> "", detected |-> ""]]
  /\ UNCHANGED expertImages

\* The pre-check: a record with the same imageName is a conflict.
ExpertImagePrecheck(c) ==
  /\ uploads[c].stage = "validated"
  /\ \E fail \in BOOLEAN :
       IF fail THEN Answer(c, 500, "UnexpectedError", "store")
       ELSE IF Named(uploads[c].body.imageName) # {}
       THEN Answer(c, 400, "ConflictError", "pre-check")
       ELSE uploads' = [uploads EXCEPT ![c].stage = "checked"]
  /\ UNCHANGED expertImages

\* The insert: the store's rejection of a duplicate is re-labelled.
ExpertImageSave(c) ==
  /\ uploads[c].stage = "checked"
  /\ \E fail \in BOOLEAN :
       IF fail
       THEN Answer(c, 500, "UnexpectedError", "store") /\ UNCHANGED expertImages
       ELSE IF UniqueIndexRejects(uploads[c].body.imageName)
       THEN Answer(c, 400, "ConflictError", "store") /\ UNCHANGED expertImages
       ELSE /\ expertImages' =
                 expertImages \cup {[createdBy |-> c,
                                     imageName |-> uploads[c].body.imageName]}
            /\ Answer(c, 201, "", "")

ExpertImageArriveRequest ==
  /\ \E c \in Clients : ExpertImageArrive(c)
  /\ UNCHANGED <<db, nextOid, now, undefinedAsNull, req, res, call, escaped, repeated,
                 inflight>>
ExpertImagePrecheckRequest ==
  /\ \E c \in Clients : ExpertImagePrecheck(c)
  /\ UNCHANGED <<db, nextOid, now, undefinedAsNull, req, res, call, escaped, repeated,
                 inflight>>
ExpertImageSaveRequest ==
  /\ \E c \in Clients : ExpertImageSave(c)
  /\ UNCHANGED <<db, nextOid, now, undefinedAsNull, req, res, call, escaped, repeated,
                 inflight>>

NextExpertImage ==
  \/ ExpertImageArriveRequest
  \/ ExpertImagePrecheckRequest
  \/ ExpertImageSaveRequest

SpecExpertImage == Init /\ [][NextExpertImage]_vars

-----------------------------------------------------------------------------
(* Vocabulary of the properties *)

\* A step in which a request is handled: from the idle server to its response.
Handles(routes) == Idle /\ req'.route \in routes

CreateRoutes == {"POST /ra-dashboard/image", "POST /admin/poster", "POST /banner"}
DeleteRoutes ==
  {"DELETE /ra-dashboard/image/:id", "DELETE /admin/poster/:id", "DELETE /banner/:id",
   "DELETE /template/:id"}
OwnerRoutes == {"GET /ra-dashboard/images/:expertId", "GET /template/:raid"}
TemplateRoutes ==
  {"GET /template", "GET /template/:raid", "POST /template", "DELETE /template/:id",
   "PATCH /template/:id"}
ErrorStatuses == {400, 404, 500}

\* The model a route works on.
ModelOfRoute(route) ==
  CASE route \in {"POST /ra-dashboard/image", "PATCH /ra-dashboard/image/:id",
                  "DELETE /ra-dashboard/image/:id", "GET /ra-dashboard/images",
                  "GET /ra-dashboard/images/:expertId"} -> "RADashboardImage"
    [] route \in {"POST /admin/poster", "GET /admin/posters", "DELETE /admin/poster/:id",
                  "PATCH /admin/poster/:id"} -> "AdminPoster"
    [] route \in {"GET /banner", "GET /banner/:id", "POST /banner",
                  "DELETE /banner/:id"} -> "Banner"
    [] OTHER -> "MessageTemplate"

\* The owner tag of a model's documents.
OwnerPath(model) == IF model = "RADashboardImage" THEN "expertId" ELSE "raid"

\* The required fields of a record kind, and its enum-constrained field's set.
RequiredFields(model) == {p \in DOMAIN SchemaOf(model) : SchemaOf(model)[p].required}
DeclaredTypes(model) == SchemaOf(model)["type"].enum

\* The documents of a collection whose identity is the id (an ObjectId is
\* written in either case).
WithIdentity(docs, id) == {d \in docs : d["_id"] = Str(ToLower(id))}

SomeDocument == \E m \in Models : db[m] # {}

-----------------------------------------------------------------------------
(* C1 *)

-----------------------------------------------------------------------------
(* C2 *)

\* C2: a PATCH (with a non-empty body) or DELETE on a dashboard image, admin
\* poster or message template whose id is the identity of no stored record,
\* whatever string the id is, is answered 404 (the store call itself not
\* failing).
C2_UnknownIdIs404 ==
  [][(Handles((PatchRoutes \cup DeleteRoutes) \ {"DELETE /banner/:id"})
        /\ WithIdentity(db[ModelOfRoute(req'.route)], req'.param) = {}
        /\ (req'.route \in PatchRoutes => Keys(req'.body) # {})
        /\ ~call'.failed)
      => res'.status = 404]_vars

-----------------------------------------------------------------------------
(* C3 *)

\* C3: a PATCH on a dashboard image, admin poster or message template whose
\* body carries no field is answered 400 and leaves the targeted record as it
\* was.
C3_EmptyPatchIs400 ==
  [][(Handles(PatchRoutes) /\ Keys(req'.body) = {})
      => (res'.status = 400 /\ db' = db)]_vars

-----------------------------------------------------------------------------
(* C4 *)

\* C4: a per-owner listing (images by expertId, templates by raid) for an owner
\* tag no stored record has is answered 404 (the store call itself not
\* failing), and a 200 from these endpoints carries a non-empty list.
C4_OwnerListing404WhenEmpty ==
  [][Handles(OwnerRoutes)
      => LET model == ModelOfRoute(req'.route)
             owned == {d \in db[model] : d[OwnerPath(model)] = Str(req'.param)}
         IN /\ (owned = {} /\ ~call'.failed) => res'.status = 404
            /\ res'.status = 200 => res'.body.data # {}]_vars

-----------------------------------------------------------------------------
(* C5 *)

\* C5: a create request (dashboard image, admin poster, banner) with every
\* required field present and a type outside the declared set is answered
\* 400 and persists no record.
C5_BadEnumIs400 ==
  [][(Handles(CreateRoutes)
        /\ \A f \in RequiredFields(ModelOfRoute(req'.route)) : ~Falsy(Get(req'.body, f))
        /\ Get(req'.body, "type") \notin DeclaredTypes(ModelOfRoute(req'.route)))
      => (res'.status = 400 /\ db' = db)]_vars

-----------------------------------------------------------------------------
(* C6 *)

\* C6: on every endpoint a failed store call (not a validation, not-found or
\* conflict condition) is answered 500, never 4xx.
C6_StoreFailureIs500 == call.failed => res.status = 500

-----------------------------------------------------------------------------
(* C7 *)

\* C7: GET and DELETE /banner/{id} with an id that is not exactly 24
\* hexadecimal characters are answered 400 "Invalid banner ID format." and
\* issue no store call.
C7_BadBannerIdIs400 ==
  (/\ req.route \in {"GET /banner/:id", "DELETE /banner/:id"}
   /\ ~(Len(req.param) = 24 /\ \A i \in 1..Len(req.param) : req.param[i] \in HexClass))
  => /\ res.status = 400
     /\ res.body.keys = {"message"}
     /\ res.body.message = "Invalid banner ID format."
     /\ call.op = "none"

\* A banner delete with a 25-character hexadecimal id, refused while a banner
\* is stored.
C7_Witness ==
  /\ req.route = "DELETE /banner/:id"
  /\ Len(req.param) = 25
  /\ \A i \in 1..Len(req.param) : req.param[i] \in HexClass
  /\ res.status = 400
  /\ db["Banner"] # {}

-----------------------------------------------------------------------------
(* C8 *)

\* C8 as stated: after a PATCH answered 200 on a dashboard image, admin
\* poster or message template, each field named in the body holds the
\* supplied value, every field of the record not named in the body holds the
\* value it had, and the returned record is the record after the merge.
C8_EveryOtherFieldKept ==
  [][(Handles(PatchRoutes) /\ res'.status = 200)
      => LET model == ModelOfRoute(req'.route)
         IN \E old \in WithIdentity(db[model], req'.param) :
              \E new \in WithIdentity(db'[model], req'.param) :
                /\ \A f \in Keys(req'.body) : f \in DOMAIN new /\ new[f] = req'.body[f]
                /\ \A g \in DOMAIN old \ Keys(req'.body) : new[g] = old[g]
                /\ res'.body.data = {new}]_vars

\* C8 as amended: after a PATCH answered 200, each field named in the body
\* that the schema declares holds the supplied value cast to the declared
\* type, the fields the schema does not declare are dropped, every schema
\* field not named in the body holds the value it had (for a message
\* template: or null, where Mongoose sends undefined update keys as null),
\* _id and createdAt are kept, updatedAt is the time of the update, and the
\* returned record is the stored record after the merge.
C8_PatchMerges ==
  [][(Handles(PatchRoutes) /\ res'.status = 200)
      => LET model == ModelOfRoute(req'.route)
             schema == SchemaOf(model)
             named == Keys(req'.body) \cap DOMAIN schema
         IN \E old \in WithIdentity(db[model], req'.param) :
              \E new \in db'[model] :
                /\ db' = [db EXCEPT ![model] = (@ \ {old}) \cup {new}]
                /\ DOMAIN new = DOMAIN old
                /\ \A f \in named : new[f] = CastValue(schema[f], req'.body[f]).v
                /\ \A g \in DOMAIN schema \ named :
                     new[g] = IF model = "MessageTemplate" /\ undefinedAsNull
                              THEN Null ELSE old[g]
                /\ new["_id"] = old["_id"]
                /\ new["createdAt"] = old["createdAt"]
                /\ new["updatedAt"] = Num(now)
                /\ res'.body.data = {new}]_vars

\* A poster's type patched with the string "3" some time after its creation:
\* stored as the number 3, updatedAt advanced, the name kept.
C8_Witness ==
  /\ req.route = "PATCH /admin/poster/:id"
  /\ res.status = 200
  /\ req.body = [type |-> Str(<<"3">>)]
  /\ \E new \in res.body.data :
       /\ new \in db["AdminPoster"]
       /\ new["type"] = Num(3)
       /\ new["name"] = Str(V_n1)
       /\ new["createdAt"] = Num(0)
       /\ new["updatedAt"] = Num(1)

-----------------------------------------------------------------------------
(* C9 *)

\* C9: a delete (dashboard image, admin poster, banner, message template)
\* whose id matches a stored record removes the record and returns its state
\* as it was just before removal (the store call itself not failing), and a
\* removed record never reappears.
C9_DeleteReturnsRemoved ==
  [][/\ (Handles(DeleteRoutes)
           /\ WithIdentity(db[ModelOfRoute(req'.route)], req'.param) # {}
           /\ ~call'.failed)
         => \E old \in WithIdentity(db[ModelOfRoute(req'.route)], req'.param) :
              /\ old \notin db'[ModelOfRoute(req'.route)]
              /\ res'.status = 200
              /\ res'.body.data = {old}
     /\ \A n \in 1..(nextOid - 1) :
          (\A m \in Models : WithIdentity(db[m], Oid(n)) = {})
            => (\A m \in Models : WithIdentity(db'[m], Oid(n)) = {})]_vars

-----------------------------------------------------------------------------
(* C10 *)

\* C10 as stated: every response with status 400, 404 or 500 has a body with
\* both a message field and an error field.
C10_ErrorBodyHasBoth ==
  res.status \in ErrorStatuses => {"message", "error"} \subseteq res.body.keys

\* C10 as amended: every response with status 400, 404 or 500 that a route
\* handler sends has a body with a message field or an error field.  Outside
\* the message-template endpoints a 500 carries { message: "Server Error",
\* error } and a 400 or 404 carries message alone; on the message-template
\* endpoints a 404 carries message alone and a 400 or 500 carries error alone.
\* An exception raised outside every handler's try block is answered, if at
\* all, with status 500: by the catch-all handler with { message: "Server
\* Error", error } or by the framework's default error page, which is not JSON.
C10_ErrorBodyShape ==
  res.status \in ErrorStatuses
  => IF escaped
     THEN /\ res.status = 500
          /\ \/ res.body = DefaultErrorPage
             \/ /\ res.body.keys = {"message", "error"}
                /\ res.body.message = "Server Error"
                /\ res.body.error # ""
     ELSE
     /\ res.body.shape = "object"
     /\ res.body.data = {}
     /\ IF req.route \in TemplateRoutes
        THEN /\ res.status = 404 => res.body.keys = {"message"}
             /\ res.status \in {400, 500}
                  => (res.body.keys = {"error"} /\ res.body.error # "")
        ELSE /\ res.status = 500
                  => /\ res.body.keys = {"message", "error"}
                     /\ res.body.message = "Server Error"
                     /\ res.body.error # ""
             /\ res.status \in {400, 404}
                  => (res.body.keys = {"message"} /\ res.body.message # "")

\* The poster listing answered 500 with both fields after a failed store call.
C10_Witness ==
  /\ req.route = "GET /admin/posters"
  /\ call.failed
  /\ res.status = 500
  /\ res.body.keys = {"message", "error"}

-----------------------------------------------------------------------------
(* C11 *)

\* C11: an exception raised while a request is handled and not caught by the
\* route handler's own try/catch reaches the catch-all error handler, so the
\* request is answered, with status 500 and { message: "Server Error", error }.
C11_UncaughtReachesErrorHandler ==
  escaped => /\ res.status = 500
             /\ res.body.keys = {"message", "error"}
             /\ res.body.message = "Server Error"

-----------------------------------------------------------------------------
(* C12 *)

\* The creates that were answered without a record of theirs in the store,
\* their required fields present and their store calls not failing.
Turned ==
  {c \in Clients : /\ uploads[c].stage = "answered"
                   /\ ~AnyFalsy(uploads[c].body, ExpertImageFields)
                   /\ uploads[c].status # 500
                   /\ \A d \in expertImages : d.createdBy # c}

\* C12: however the creates that carry one imageName interleave, at most
\* one record holds that imageName, and each of them that persisted no record
\* (its required fields present, its store calls not failing) is answered 400
\* with a ConflictError, detected by the pre-check or by the store's unique
\* index.
C12_OneRecordPerImageName ==
  /\ \A a \in expertImages, b \in expertImages : a.imageName = b.imageName => a = b
  /\ \A c \in Turned :
       /\ uploads[c].status = 400
       /\ uploads[c].error = "ConflictError"
       /\ uploads[c].detected \in {"pre-check", "store"}
       /\ Named(uploads[c].body.imageName) # {}

\* Two creates with one imageName both passed the pre-check; the second
\* client's insert came first and the first client's was rejected by the
\* unique index.
C12_Witness ==
  /\ uploads[1].body = uploads[2].body
  /\ uploads[2].status = 201
  /\ uploads[1].status = 400
  /\ uploads[1].detected = "store"
  /\ Cardinality(expertImages) = 1

-----------------------------------------------------------------------------
(* C13 *)

\* C13: in every reachable state each stored dashboard image has type blur,
\* marketing or premium, each stored admin poster has type 1, 2 or 3 and each
\* stored banner has type home, webinar or course.
C13_StoredTypesDeclared ==
  /\ \A d \in db["RADashboardImage"] :
       d["type"] \in {Str(S_blur), Str(S_marketing), Str(S_premium)}
  /\ \A d \in db["AdminPoster"] : d["type"] \in {Num(1), Num(2), Num(3)}
  /\ \A d \in db["Banner"] : d["type"] \in {Str(S_home), Str(S_webinar), Str(S_course)}

\* A dashboard image created as blur is stored as marketing after a PATCH of
\* its type.
C13_Witness ==
  /\ req.route = "PATCH /ra-dashboard/image/:id"
  /\ res.status = 200
  /\ Get(req.body, "type") = Str(S_marketing)
  /\ \E d \in db["RADashboardImage"] :
       d["type"] = Str(S_marketing) /\ d["updatedAt"] # d["createdAt"]

-----------------------------------------------------------------------------
(* C14 *)

\* A step in which a PATCH that was answered 200 is handled a second time.
RepeatsPatch == Repeatable /\ repeated'

\* Two versions of a record that agree on every field but updatedAt.
SameButUpdatedAt(a, b) ==
  DOMAIN a = DOMAIN b /\ \A f \in DOMAIN a \ {"updatedAt"} : a[f] = b[f]

\* C14: a PATCH that names at least one field and was answered 200, applied
\* a second time with no other write in between (its store call not
\* failing), is answered 200 again and leaves the record with the field
\* contents it had after the first, the modification timestamp apart; no other
\* record changes.
C14_PatchTwiceAsOnce ==
  [][RepeatsPatch /\ DOMAIN req.body # {} /\ ~call'.failed
     => LET m == ModelOfRoute(req.route)
            once == WithIdentity(db[m], req.param)
            twice == WithIdentity(db'[m], req.param)
        IN /\ res'.status = 200
           /\ once # {}
           /\ \A a \in once : \E b \in twice : SameButUpdatedAt(a, b)
           /\ \A b \in twice : b \in res'.body.data
           /\ db'[m] \ twice = db[m] \ once
           /\ \A k \in Models \ {m} : db'[k] = db[k]]_vars

\* A dashboard image whose name was patched at time 0 and patched again with
\* the same request at time 1: the new name, the creation time kept, the
\* modification time advanced.
C14_Witness ==
  /\ repeated
  /\ req.route = "PATCH /ra-dashboard/image/:id"
  /\ req.body = [name |-> Str(V_n2)]
  /\ res.status = 200
  /\ \E d \in db["RADashboardImage"] :
       /\ d["name"] = Str(V_n2)
       /\ d["createdAt"] = Num(0)
       /\ d["updatedAt"] = Num(1)

-----------------------------------------------------------------------------
(* C15 *)

\* The clients whose delete of the stored record of a model has been
\* answered after a store call that did not fail.
Deleted(route) ==
  {c \in Clients : /\ inflight[c].route = route
                   /\ inflight[c].stage = "answered"
                   /\ ~inflight[c].failed}

\* C15: of the delete requests for one stored record that are handled
\* concurrently (their store calls not failing), exactly one is answered 200
\* and every other one 404, in whatever order the store executes them; the
\* record is gone once the first of them is answered.
C15_OneDeleteWins ==
  \A route \in {"DELETE /ra-dashboard/image/:id", "DELETE /admin/poster/:id",
                 "DELETE /template/:id"} :
    Deleted(route) # {}
      => /\ Cardinality({c \in Deleted(route) : inflight[c].status = 200}) = 1
         /\ \A c \in Deleted(route) : inflight[c].status \in {200, 404}
         /\ db[ModelOfRoute(route)] = {}

\* Two deletes of the stored dashboard image were pending together; the
\* store executed the second client's call first.
C15_Witness ==
  /\ inflight[1].route = "DELETE /ra-dashboard/image/:id"
  /\ inflight[2].route = "DELETE /ra-dashboard/image/:id"
  /\ inflight[1].status = 404
  /\ inflight[2].status = 200
  /\ db["RADashboardImage"] = {}

-----------------------------------------------------------------------------
(* C16 *)

\* The identities of the records of a collection.
Identities(docs) == {d["_id"] : d \in docs}

\* C16: a request answered 400, 404 or 500, on any endpoint, leaves every
\* record of the store as it was; and no PATCH, whatever its answer, adds a
\* record: one for an id whose record was deleted is answered without the
\* record coming back.
C16_ErrorLeavesStore ==
  [][/\ (req' # NoRequest /\ res'.status \in ErrorStatuses) => db' = db
     /\ req'.route \in PatchRoutes
          => \A m \in Models : Identities(db'[m]) \subseteq Identities(db[m])]_vars

\* A PATCH of a dashboard image whose record was created and deleted before:
\* answered 404, the collection still empty.
C16_Witness ==
  /\ req.route = "PATCH /ra-dashboard/image/:id"
  /\ req.param = Oid(1)
  /\ req.body = [name |-> Str(V_n2)]
  /\ res.status = 404
  /\ nextOid = 2
  /\ db["RADashboardImage"] = {}

====
